---------------------------- MODULE Spec2Model ----------------------------
(***************************************************************************)
(* CO2e Impact Calculator (src/co2e_impact_calculator.py).                 *)
(*                                                                         *)
(* The program is a single-threaded tkinter form: ten check boxes, one per *)
(* entry of LIFESTYLE_CHANGES, a summary label, a Calculate button and a   *)
(* three-tab notebook.  Every callback runs to completion on the event     *)
(* loop, so each callback is one action.                                   *)
(*                                                                         *)
(* Numbers.  decimal.Decimal values are records [sign, coef, exp] standing *)
(* for +-coef * 10^exp, with the arithmetic of the decimal module (the context   *)
(* precision of 28 digits is never reached by coefficients that fit the    *)
(* integers of the model, so no operation rounds).  A Python float is      *)
(* modelled by the integer number of billionths (1e-9) it stands for: the  *)
(* floats the program builds come from decimals with at most nine          *)
(* fractional digits, a double resolves them to better than 1e-15, and     *)
(* every comparison the program makes is against 0, 0.01, 0.1 or 1.        *)
(***************************************************************************)
EXTENDS Integers, Sequences, FiniteSets

(***************************************************************************)
(* Bounds of the model.                                                    *)
(***************************************************************************)
\* check-box / name-label clicks in one session
MaxToggles == 2
\* presses of the Calculate button in one session
MaxCalcs == 3
\* largest kilogram total handed to calculate_lives_saved on its own
MaxKg == 40
\* samples on each side of every threshold of the interpretation ladder
MaxDelta == 3

(***************************************************************************)
(* Module-level data                                                       *)
(***************************************************************************)
\* Decimal("...") literals: sign (0 plus, 1 minus), coefficient, exponent
Dec(s, c, e) == [sign |-> s, coef |-> c, exp |-> e]

\* the central coefficient with a misplaced decimal point: Decimal("0.00226")
MCC_CENTRAL_misplaced_point == Dec(0, 226, -5)

MCC_CENTRAL == Dec(0, 226, -6)
MCC_LOW == Dec(1, 171, -6)
MCC_HIGH == Dec(0, 678, -6)
KG_PER_METRIC_TON == Dec(0, 1000, 0)
PROJECTION_YEARS == 10

\* the module globals a callback could rebind or mutate
SCIENTIFIC_CONSTANTS ==
  [MCC_CENTRAL |-> MCC_CENTRAL, MCC_LOW |-> MCC_LOW, MCC_HIGH |-> MCC_HIGH,
   KG_PER_METRIC_TON |-> KG_PER_METRIC_TON, PROJECTION_YEARS |-> PROJECTION_YEARS]

LIFESTYLE_CHANGES ==
  << [id |-> "flight_syd_lon",    annual_kg |-> 4500],
     [id |-> "reduce_meat",       annual_kg |-> 920],
     [id |-> "eliminate_dairy",   annual_kg |-> 420],
     [id |-> "go_car_free",       annual_kg |-> 2400],
     [id |-> "switch_ev",         annual_kg |-> 2000],
     [id |-> "renewable_energy",  annual_kg |-> 1500],
     [id |-> "cycle_commute",     annual_kg |-> 500],
     [id |-> "short_flight",      annual_kg |-> 500],
     [id |-> "reduce_food_waste", annual_kg |-> 300],
     [id |-> "energy_efficiency", annual_kg |-> 300] >>

VARIABLES
  catalog,          \* the list object bound to LIFESTYLE_CHANGES
  constants,        \* the module-level scientific constants
  phase,            \* "constructed" (__init__ up to line 180) or "running"
  change_vars,      \* self.change_vars: id -> BooleanVar value
  summary_label,    \* the three numbers of the summary line
  results_content,  \* what the results tab shows
  notebook_tab,     \* index of the selected notebook tab
  warnings,         \* number of "No Selection" warnings shown
  engine_calls,     \* number of calls of calculate_lives_saved by the form
  last_event,       \* history: the last click on a box or on Calculate, with its outcome
  click_total,      \* history: annual_kg added / removed click by click
  out_of_order,     \* history: some box was selected after a later box of the list
  first_result,     \* history: selection -> what its first calculation showed, and when
  toggles,          \* history: number of check-box and name-label clicks
  arg_kg, ret,      \* calculate_lives_saved called on its own: argument, result
  arg_central, interp  \* the interpretation ladder on its own: argument, result

vars == << catalog, constants, phase, change_vars, summary_label, results_content,
           notebook_tab, warnings, engine_calls, last_event, click_total, out_of_order,
           first_result, toggles, arg_kg, ret, arg_central,
           interp >>

gui_vars == << phase, change_vars, summary_label, results_content, notebook_tab,
               warnings, engine_calls, last_event, click_total, out_of_order, first_result,
               toggles >>

pure_vars == << arg_kg, ret, arg_central, interp >>

(***************************************************************************)
(* decimal.Decimal and float                                               *)
(***************************************************************************)
RECURSIVE Pow10(_)
Pow10(n) == IF n = 0 THEN 1 ELSE 10 * Pow10(n - 1)

Abs(x) == IF x < 0 THEN -x ELSE x

\* Decimal(n) for an int n
Decimal(n) == Dec(IF n < 0 THEN 1 ELSE 0, Abs(n), 0)

\* Decimal.__mul__: signs combine, coefficients multiply, exponents add
DecMul(a, b) == Dec((a.sign + b.sign) % 2, a.coef * b.coef, a.exp + b.exp)

\* Decimal.__truediv__ for an exact quotient: the result gets as close to the
\* ideal exponent a.exp - b.exp as exactness allows.  Three extra digits are
\* enough for an integer divided by 1000.
DecDiv(a, b) ==
  LET k == CHOOSE k \in 0..3 :
             /\ (a.coef * Pow10(k)) % b.coef = 0
             /\ \A j \in 0..(k - 1) : (a.coef * Pow10(j)) % b.coef # 0
  IN Dec((a.sign + b.sign) % 2, (a.coef * Pow10(k)) \div b.coef, a.exp - b.exp - k)

\* float(d), in billionths (the sign of a negative zero is not kept; the form
\* never computes one, its totals being positive)
float(d) == (IF d.sign = 1 THEN -1 ELSE 1) * d.coef * Pow10(9 + d.exp)

\* f"{x:.<digits>f}" of a float given in billionths: the sign, and the number
\* of units of 10^-digits, rounded to nearest.  On a decimal tie the double lies
\* just above or just below the half and the binary value decides; tie marks
\* that case and units then holds the lower candidate (what CPython prints for
\* the one tie among the catalog totals, 7500 kg a year: 0.01695 -> "0.0169").
FormatF(x, digits) ==
  LET unit == Pow10(9 - digits)
      q == Abs(x) \div unit
      r == Abs(x) % unit
  IN [neg |-> x < 0, digits |-> digits,
      units |-> IF 2 * r > unit THEN q + 1 ELSE q,
      tie |-> (2 * r = unit)]

(***************************************************************************)
(* CALCULATION FUNCTIONS                                                   *)
(***************************************************************************)
\* calculate_lives_saved with whole tons (co2e_kg // KG_PER_METRIC_TON)
calculate_lives_saved_floor_div(co2e_kg, k) ==
  LET co2e_tons == Dec(co2e_kg.sign, co2e_kg.coef \div k.KG_PER_METRIC_TON.coef, 0)
  IN [central |-> DecMul(co2e_tons, k.MCC_CENTRAL),
      low |-> DecMul(co2e_tons, k.MCC_LOW),
      high |-> DecMul(co2e_tons, k.MCC_HIGH),
      co2e_tons |-> co2e_tons]

\* calculate_lives_saved with the low estimate clamped: max(0, co2e_tons * MCC_LOW)
calculate_lives_saved_clamped(co2e_kg, k) ==
  LET co2e_tons == DecDiv(co2e_kg, k.KG_PER_METRIC_TON)
      low == DecMul(co2e_tons, k.MCC_LOW)
  IN [central |-> DecMul(co2e_tons, k.MCC_CENTRAL),
      low |-> IF low.sign = 1 THEN Decimal(0) ELSE low,
      high |-> DecMul(co2e_tons, k.MCC_HIGH),
      co2e_tons |-> co2e_tons]

\* calculate_lives_saved with the bounds crossed: "low" from MCC_HIGH, "high"
\* from MCC_LOW
calculate_lives_saved_swapped(co2e_kg, k) ==
  LET co2e_tons == DecDiv(co2e_kg, k.KG_PER_METRIC_TON)
  IN [central |-> DecMul(co2e_tons, k.MCC_CENTRAL),
      low |-> DecMul(co2e_tons, k.MCC_HIGH),
      high |-> DecMul(co2e_tons, k.MCC_LOW),
      co2e_tons |-> co2e_tons]

\* calculate_lives_saved(co2e_kg), reading the module constants k
calculate_lives_saved(co2e_kg, k) ==
  LET co2e_tons == DecDiv(co2e_kg, k.KG_PER_METRIC_TON)
  IN [central |-> DecMul(co2e_tons, k.MCC_CENTRAL),
      low |-> DecMul(co2e_tons, k.MCC_LOW),
      high |-> DecMul(co2e_tons, k.MCC_HIGH),
      co2e_tons |-> co2e_tons]

(***************************************************************************)
(* Pieces of the callbacks                                                 *)
(***************************************************************************)
Ids == {LIFESTYLE_CHANGES[i].id : i \in DOMAIN LIFESTYLE_CHANGES}

\* the loop "for change in LIFESTYLE_CHANGES: if var.get(): selected.append"
Selected(cat, cv) == SelectSeq(cat, LAMBDA c : cv[c.id])

\* sum() over the set of distinct annual_kg values instead of over the entries
RECURSIVE SumOfValues(_)
SumOfValues(values) ==
  IF values = {} THEN 0
  ELSE LET v == CHOOSE v \in values : TRUE IN v + SumOfValues(values \ {v})

sum_distinct_values(selected) ==
  SumOfValues({selected[i].annual_kg : i \in DOMAIN selected})

\* sum(c["annual_kg"] for c in selected), left to right from 0
RECURSIVE sum(_)
sum(selected) ==
  IF selected = << >> THEN 0
  ELSE sum(SubSeq(selected, 1, Len(selected) - 1))
         + selected[Len(selected)].annual_kg

\* round(1 / central) in place of int(1 / central)
round_reciprocal(central) ==
  IF central = 0 THEN [fault |-> TRUE, value |-> 0]
  ELSE [fault |-> FALSE,
        value |-> IF central > 0 THEN (2 * Pow10(9) + central) \div (2 * central)
                  ELSE -((2 * Pow10(9) - central) \div (-2 * central))]

\* int(1 / central) for a float central in billionths: ZeroDivisionError on 0,
\* else the quotient truncated toward zero
int_reciprocal(central) ==
  IF central = 0 THEN [fault |-> TRUE, value |-> 0]
  ELSE [fault |-> FALSE,
        value |-> IF central > 0 THEN Pow10(9) \div central
                  ELSE -(Pow10(9) \div (-central))]

\* the ladder with "central > 0.1" for "central >= 0.1"
Interpretation_strict_tenth(central) ==
  IF central >= Pow10(9)
    THEN [band |-> "deaths", people_needed |-> << >>, divisions |-> 0, fault |-> FALSE]
  ELSE IF central > Pow10(8)
    THEN [band |-> "percent_1dp", people_needed |-> << >>, divisions |-> 0, fault |-> FALSE]
  ELSE IF central >= Pow10(7)
    THEN [band |-> "percent_2dp", people_needed |-> << >>, divisions |-> 0, fault |-> FALSE]
  ELSE IF central > 0
    THEN [band |-> "people", people_needed |-> << int_reciprocal(central).value >>,
          divisions |-> 1, fault |-> int_reciprocal(central).fault]
    ELSE [band |-> "people", people_needed |-> << 0 >>, divisions |-> 0, fault |-> FALSE]

\* the ladder with "people_needed = int(1 / central)" and no "if central > 0"
Interpretation_unguarded(central) ==
  IF central >= Pow10(9)
    THEN [band |-> "deaths", people_needed |-> << >>, divisions |-> 0, fault |-> FALSE]
  ELSE IF central >= Pow10(8)
    THEN [band |-> "percent_1dp", people_needed |-> << >>, divisions |-> 0, fault |-> FALSE]
  ELSE IF central >= Pow10(7)
    THEN [band |-> "percent_2dp", people_needed |-> << >>, divisions |-> 0, fault |-> FALSE]
  ELSE [band |-> "people", people_needed |-> << int_reciprocal(central).value >>,
        divisions |-> 1, fault |-> int_reciprocal(central).fault]

\* the if / elif ladder of "What This Means"; people_needed is << >> on the
\* branches that do not bind it; divisions counts evaluations of 1 / central
Interpretation(central) ==
  IF central >= Pow10(9)
    THEN [band |-> "deaths", people_needed |-> << >>, divisions |-> 0, fault |-> FALSE]
  ELSE IF central >= Pow10(8)
    THEN [band |-> "percent_1dp", people_needed |-> << >>, divisions |-> 0, fault |-> FALSE]
  ELSE IF central >= Pow10(7)
    THEN [band |-> "percent_2dp", people_needed |-> << >>, divisions |-> 0, fault |-> FALSE]
  ELSE IF central > 0
    THEN [band |-> "people", people_needed |-> << int_reciprocal(central).value >>,
          divisions |-> 1, fault |-> int_reciprocal(central).fault]
    ELSE [band |-> "people", people_needed |-> << 0 >>, divisions |-> 0, fault |-> FALSE]

\* the text _update_summary puts on the summary label
SummaryText(cat, cv, k) ==
  LET total_annual == sum(Selected(cat, cv))
  IN [count |-> Len(Selected(cat, cv)),
      total_annual |-> total_annual,
      total_10y |-> total_annual * k.PROJECTION_YEARS]

\* the results with the ten-year total taken from whole tons a year
ResultsContent_whole_tons(selected, k) ==
  LET total_annual == sum(selected)
      total_10y == (total_annual \div 1000) * 1000 * k.PROJECTION_YEARS
      results == calculate_lives_saved(Decimal(total_10y), k)
      central == float(results.central)
      low == float(results.low)
      high == float(results.high)
  IN [kind |-> "results",
      total_annual |-> total_annual,
      total_10y |-> total_10y,
      results |-> results,
      lives_text |-> IF central >= Pow10(7) THEN FormatF(central, 4)
                     ELSE FormatF(central, 6),
      range_text |-> [low |-> FormatF(low, 6), high |-> FormatF(high, 6)],
      rows |-> [i \in DOMAIN selected |->
                  [id |-> selected[i].id,
                   annual_kg |-> selected[i].annual_kg,
                   ten_years |-> selected[i].annual_kg * 10]],
      interpretation |-> Interpretation(central)]

\* the widgets _calculate_and_show_results builds for a non-empty selection
ResultsContent(selected, k) ==
  LET total_annual == sum(selected)
      total_10y == total_annual * k.PROJECTION_YEARS
      results == calculate_lives_saved(Decimal(total_10y), k)
      central == float(results.central)
      low == float(results.low)
      high == float(results.high)
  IN [kind |-> "results",
      total_annual |-> total_annual,
      total_10y |-> total_10y,
      results |-> results,
      lives_text |-> IF central >= Pow10(7) THEN FormatF(central, 4)
                     ELSE FormatF(central, 6),
      range_text |-> [low |-> FormatF(low, 6), high |-> FormatF(high, 6)],
      rows |-> [i \in DOMAIN selected |->
                  [id |-> selected[i].id,
                   annual_kg |-> selected[i].annual_kg,
                   ten_years |-> selected[i].annual_kg * 10]],
      interpretation |-> Interpretation(central)]

Placeholder == [kind |-> "placeholder"]

(***************************************************************************)
(* History bookkeeping (not program state)                                 *)
(***************************************************************************)
SelectedIds(cv) == {id \in DOMAIN cv : cv[id]}

\* position of id in the list cat
Index(cat, id) == CHOOSE i \in DOMAIN cat : cat[i].id = id

Remember(f, key, value) ==
  IF key \in DOMAIN f THEN f
  ELSE [x \in DOMAIN f \cup {key} |-> IF x = key THEN value ELSE f[x]]

(***************************************************************************)
(* Construction                                                            *)
(***************************************************************************)
\* _create_change_card: the BooleanVar(value=False) stored under change["id"]
\* (a later entry with the same id would replace the earlier one)
_create_change_card(cv, change) ==
  [id \in DOMAIN cv \cup {change.id} |-> IF id = change.id THEN FALSE ELSE cv[id]]

RECURSIVE CreateCards(_, _)
CreateCards(cat, n) ==
  IF n = 0 THEN [id \in {} |-> FALSE]
  ELSE _create_change_card(CreateCards(cat, n - 1), cat[n])

\* _create_widgets that reverses the catalog in place while building the cards
_create_widgets_reversing ==
  /\ phase = "constructed"
  /\ phase' = "running"
  /\ catalog' = [i \in DOMAIN catalog |-> catalog[Len(catalog) + 1 - i]]
  /\ change_vars' = CreateCards(catalog, Len(catalog))
  /\ summary_label' = [count |-> 0, total_annual |-> 0, total_10y |-> 0]
  /\ results_content' = Placeholder
  /\ notebook_tab' = 0
  /\ UNCHANGED << constants, warnings, engine_calls, last_event,
                  click_total, out_of_order, first_result, toggles >>
  /\ UNCHANGED pure_vars

\* _create_widgets: the three tabs, one card per catalog entry, the summary
\* label with its literal text, the placeholder on the results tab
_create_widgets ==
  /\ phase = "constructed"
  /\ phase' = "running"
  /\ change_vars' = CreateCards(catalog, Len(catalog))
  /\ summary_label' = [count |-> 0, total_annual |-> 0, total_10y |-> 0]
  /\ results_content' = Placeholder
  /\ notebook_tab' = 0
  /\ UNCHANGED << catalog, constants, warnings, engine_calls, last_event,
                  click_total, out_of_order, first_result, toggles >>
  /\ UNCHANGED pure_vars

(***************************************************************************)
(* Callbacks                                                               *)
(***************************************************************************)
\* _update_summary, after the BooleanVar of id was flipped
_update_summary(id) ==
  /\ change_vars' = [change_vars EXCEPT ![id] = ~ @]
  /\ summary_label' = SummaryText(catalog, change_vars', constants)
  /\ click_total' = IF change_vars[id]
                      THEN click_total - catalog[Index(catalog, id)].annual_kg
                      ELSE click_total + catalog[Index(catalog, id)].annual_kg
  /\ out_of_order' =
       /\ SelectedIds(change_vars') # {}
       /\ \/ out_of_order
          \/ /\ ~ change_vars[id]
             /\ \E other \in SelectedIds(change_vars) :
                   Index(catalog, other) > Index(catalog, id)
  /\ toggles' = toggles + 1
  /\ last_event' = "toggle"
  /\ UNCHANGED << catalog, constants, phase, results_content, notebook_tab,
                  warnings, engine_calls, first_result >>
  /\ UNCHANGED pure_vars

\* a click on the ttk.Checkbutton: tk flips the variable, then runs the command
ClickCheckbox ==
  /\ phase = "running"
  /\ toggles < MaxToggles
  /\ \E id \in DOMAIN change_vars : _update_summary(id)

\* the binding written "v.set(not v.get()) and self._update_summary()": set()
\* returns None, so the summary is never refreshed
ClickNameLabel_without_update ==
  /\ phase = "running"
  /\ toggles < MaxToggles
  /\ \E id \in DOMAIN change_vars :
       /\ change_vars' = [change_vars EXCEPT ![id] = ~ @]
       /\ click_total' = IF change_vars[id]
                           THEN click_total - catalog[Index(catalog, id)].annual_kg
                           ELSE click_total + catalog[Index(catalog, id)].annual_kg
       /\ out_of_order' =
            /\ SelectedIds(change_vars') # {}
            /\ \/ out_of_order
               \/ /\ ~ change_vars[id]
                  /\ \E other \in SelectedIds(change_vars) :
                        Index(catalog, other) > Index(catalog, id)
  /\ toggles' = toggles + 1
  /\ last_event' = "toggle"
  /\ UNCHANGED << catalog, constants, phase, summary_label, results_content,
                  notebook_tab, warnings, engine_calls, first_result >>
  /\ UNCHANGED pure_vars

\* <Button-1> on the name label: v.set(not v.get()) or self._update_summary()
ClickNameLabel ==
  /\ phase = "running"
  /\ toggles < MaxToggles
  /\ \E id \in DOMAIN change_vars : _update_summary(id)

\* a click on a notebook tab (ttk.Notebook's own behaviour)
SelectTab ==
  /\ phase = "running"
  /\ \E t \in 0..2 : notebook_tab' = t
  /\ UNCHANGED << catalog, constants, phase, change_vars, summary_label,
                  results_content, warnings, engine_calls, last_event,
                  click_total, out_of_order, first_result, toggles >>
  /\ UNCHANGED pure_vars

\* _calculate_and_show_results without the "if not selected: ... return"
_calculate_without_empty_check ==
  /\ phase = "running"
  /\ warnings + engine_calls < MaxCalcs
  /\ LET selected == Selected(catalog, change_vars) IN
       /\ results_content' = ResultsContent(selected, constants)
       /\ engine_calls' = engine_calls + 1
       /\ notebook_tab' = 1
       /\ last_event' = "shown"
       /\ first_result' = Remember(first_result, SelectedIds(change_vars),
                                   [content |-> results_content',
                                    toggles |-> toggles])
       /\ UNCHANGED warnings
  /\ UNCHANGED << catalog, constants, phase, change_vars, summary_label,
                  click_total, out_of_order, toggles >>
  /\ UNCHANGED pure_vars

\* _calculate_and_show_results that does not destroy the old children of
\* results_content: the rows of the previous calculation stay above the new ones
_calculate_keeping_old_rows ==
  /\ phase = "running"
  /\ warnings + engine_calls < MaxCalcs
  /\ LET selected == Selected(catalog, change_vars) IN
       IF selected = << >>
         THEN /\ warnings' = warnings + 1
              /\ last_event' = "warned"
              /\ UNCHANGED << results_content, notebook_tab, engine_calls,
                              first_result >>
         ELSE /\ results_content' =
                   [ResultsContent(selected, constants) EXCEPT
                      !.rows = IF results_content.kind = "results"
                                 THEN results_content.rows \o @ ELSE @]
              /\ engine_calls' = engine_calls + 1
              /\ notebook_tab' = 1
              /\ last_event' = "shown"
              /\ first_result' = Remember(first_result, SelectedIds(change_vars),
                                          [content |-> results_content',
                                           toggles |-> toggles])
              /\ UNCHANGED warnings
  /\ UNCHANGED << catalog, constants, phase, change_vars, summary_label,
                  click_total, out_of_order, toggles >>
  /\ UNCHANGED pure_vars

\* _calculate_and_show_results
_calculate_and_show_results ==
  /\ phase = "running"
  /\ warnings + engine_calls < MaxCalcs
  /\ LET selected == Selected(catalog, change_vars) IN
       IF selected = << >>
         THEN /\ warnings' = warnings + 1
              /\ last_event' = "warned"
              /\ UNCHANGED << results_content, notebook_tab, engine_calls,
                              first_result >>
         ELSE /\ results_content' = ResultsContent(selected, constants)
              /\ engine_calls' = engine_calls + 1
              /\ notebook_tab' = 1
              /\ last_event' = "shown"
              /\ first_result' = Remember(first_result, SelectedIds(change_vars),
                                          [content |-> results_content',
                                           toggles |-> toggles])
              /\ UNCHANGED warnings
  /\ UNCHANGED << catalog, constants, phase, change_vars, summary_label,
                  click_total, out_of_order, toggles >>
  /\ UNCHANGED pure_vars

(***************************************************************************)
(* The form, from construction                                             *)
(***************************************************************************)
PureIdle ==
  /\ arg_kg = 0
  /\ ret = << >>
  /\ arg_central = 0
  /\ interp = << >>

Init ==
  /\ catalog = LIFESTYLE_CHANGES
  /\ constants = SCIENTIFIC_CONSTANTS
  /\ phase = "constructed"
  /\ change_vars = [id \in {} |-> FALSE]
  /\ summary_label = [count |-> 0, total_annual |-> 0, total_10y |-> 0]
  /\ results_content = Placeholder
  /\ notebook_tab = 0
  /\ warnings = 0
  /\ engine_calls = 0
  /\ last_event = "none"
  /\ click_total = 0
  /\ out_of_order = FALSE
  /\ first_result = [s \in {} |-> Placeholder]
  /\ toggles = 0
  /\ PureIdle

Next ==
  \/ _create_widgets
  \/ ClickCheckbox
  \/ ClickNameLabel
  \/ SelectTab
  \/ _calculate_and_show_results

Spec == Init /\ [][Next]_vars

(***************************************************************************)
(* The form with the choice of boxes already made: every subset of the     *)
(* catalog is a selection the clicks above can produce, and the summary    *)
(* label shows it.                                                         *)
(***************************************************************************)
InitCatalog ==
  /\ catalog = LIFESTYLE_CHANGES
  /\ constants = SCIENTIFIC_CONSTANTS
  /\ phase = "running"
  /\ change_vars \in [Ids -> BOOLEAN]
  /\ summary_label = SummaryText(catalog, change_vars, constants)
  /\ results_content = Placeholder
  /\ notebook_tab = 0
  /\ warnings = 0
  /\ engine_calls = 0
  /\ last_event = IF SelectedIds(change_vars) = {} THEN "none" ELSE "toggle"
  /\ click_total = sum(Selected(catalog, change_vars))
  /\ out_of_order = FALSE
  /\ first_result = [s \in {} |-> Placeholder]
  /\ toggles = Cardinality(SelectedIds(change_vars))
  /\ PureIdle

NextCatalog ==
  \/ SelectTab
  \/ _calculate_and_show_results

SpecCatalog == InitCatalog /\ [][NextCatalog]_vars

(***************************************************************************)
(* calculate_lives_saved and the interpretation ladder on their own        *)
(***************************************************************************)
KgInputs ==
  UNION {{k, 1000 * k, 3335 * k} : k \in 0..MaxKg}

\* floats around 0 and around the thresholds 0.01, 0.1 and 1, in steps of
\* 226e-9 (the central estimate of one kilogram)
CentralInputs ==
  {t + 226 * d : t \in {0, Pow10(7), Pow10(8), Pow10(9)}, d \in (-MaxDelta)..MaxDelta}

CallCalculateLivesSaved ==
  /\ ret = << >>
  /\ ret' = << calculate_lives_saved(Decimal(arg_kg), constants) >>
  /\ UNCHANGED << catalog, constants, arg_kg, arg_central, interp >>
  /\ UNCHANGED gui_vars

CallInterpretation ==
  /\ interp = << >>
  /\ interp' = << Interpretation(arg_central) >>
  /\ UNCHANGED << catalog, constants, arg_kg, ret, arg_central >>
  /\ UNCHANGED gui_vars

InitPure ==
  /\ catalog = LIFESTYLE_CHANGES
  /\ constants = SCIENTIFIC_CONSTANTS
  /\ phase = "constructed"
  /\ change_vars = [id \in {} |-> FALSE]
  /\ summary_label = [count |-> 0, total_annual |-> 0, total_10y |-> 0]
  /\ results_content = Placeholder
  /\ notebook_tab = 0
  /\ warnings = 0
  /\ engine_calls = 0
  /\ last_event = "none"
  /\ click_total = 0
  /\ out_of_order = FALSE
  /\ first_result = [s \in {} |-> Placeholder]
  /\ toggles = 0
  /\ arg_kg \in KgInputs
  /\ ret = << >>
  /\ arg_central \in CentralInputs
  /\ interp = << >>

NextPure ==
  \/ CallCalculateLivesSaved
  \/ CallInterpretation

SpecPure == InitPure /\ [][NextPure]_vars

(***************************************************************************)
(* Properties                                                              *)
(***************************************************************************)
AnnualKg(id) == LIFESTYLE_CHANGES[Index(LIFESTYLE_CHANGES, id)].annual_kg

\* the sum of annual_kg over a set of catalog ids
RECURSIVE SetSum(_)
SetSum(S) ==
  IF S = {} THEN 0
  ELSE LET id == CHOOSE id \in S : TRUE IN AnnualKg(id) + SetSum(S \ {id})

\* the value of the decimal d in units of 10^-n
Scaled(d, n) == (IF d.sign = 1 THEN -1 ELSE 1) * d.coef * Pow10(n + d.exp)

JustShown == last_event = "shown"

\* C1: after a calculation on a non-empty selection, reached by any clicks in
\* any order, the annual total it used is the sum of annual_kg over exactly the
\* selected entries; it equals the total added up click by click, so it does not
\* depend on the order of selection.
C1_AnnualTotalIsSumOfSelection ==
  JustShown =>
    /\ SelectedIds(change_vars) # {}
    /\ results_content.total_annual = SetSum(SelectedIds(change_vars))
    /\ results_content.total_annual = click_total

\* two boxes with equal annual_kg, the later of the list ticked first
C1_Witness ==
  /\ JustShown
  /\ out_of_order
  /\ SelectedIds(change_vars) = {"cycle_commute", "short_flight"}
  /\ results_content.total_annual = 1000

\* C2: calculate_lives_saved(kg) returns co2e_tons = kg / 1000 and
\* central = co2e_tons * 0.000226, low = co2e_tons * -0.000171,
\* high = co2e_tons * 0.000678 exactly: in billionths, central = 226 kg,
\* low = -171 kg, high = 678 kg.
C2_ExactLinearScaling ==
  ret # << >> =>
    LET r == ret[1] IN
      /\ Scaled(r.co2e_tons, 3) = arg_kg
      /\ Scaled(r.central, 9) = 226 * Scaled(r.co2e_tons, 3)
      /\ Scaled(r.low, 9) = -171 * Scaled(r.co2e_tons, 3)
      /\ Scaled(r.high, 9) = 678 * Scaled(r.co2e_tons, 3)
      /\ Scaled(r.central, 9) = 226 * arg_kg
      /\ Scaled(r.low, 9) = -171 * arg_kg
      /\ Scaled(r.high, 9) = 678 * arg_kg

\* a total that is not a whole number of tons
C2_Witness ==
  /\ ret # << >>
  /\ arg_kg = 3335
  /\ ret[1].co2e_tons = Dec(0, 3335, -3)
  /\ ret[1].central = Dec(0, 753710, -9)

\* C3: Calculate with no box ticked shows the warning and returns: the engine is
\* not called, no result is produced, and the results content, the selected tab
\* and the boxes stay as they were.
C3_EmptySelectionRejected ==
  [][(_calculate_and_show_results /\ SelectedIds(change_vars) = {}) =>
       /\ warnings' = warnings + 1
       /\ last_event' = "warned"
       /\ engine_calls' = engine_calls
       /\ results_content' = results_content
       /\ notebook_tab' = notebook_tab
       /\ change_vars' = change_vars
       /\ first_result' = first_result]_vars

\* a rejected Calculate with earlier results on display and another tab selected
C3_Witness ==
  /\ last_event = "warned"
  /\ warnings = 1
  /\ engine_calls = 1
  /\ results_content.kind = "results"
  /\ notebook_tab = 0
  /\ SelectedIds(change_vars) = {}

\* C4: for every non-empty catalog selection the low estimate is strictly
\* negative, as computed and as displayed in the range line: the sign is kept
\* and the value is not clamped to zero.
C4_LowEstimateStaysNegative ==
  JustShown =>
    /\ Scaled(results_content.results.co2e_tons, 3) > 0
    /\ results_content.results.low.sign = 1
    /\ Scaled(results_content.results.low, 9) < 0
    /\ results_content.range_text.low.neg
    /\ results_content.range_text.low.units > 0

\* the smallest selection: 300 kg a year, low = -0.000513
C4_Witness ==
  /\ JustShown
  /\ SelectedIds(change_vars) = {"energy_efficiency"}
  /\ results_content.results.low = Dec(1, 513, -6)
  /\ results_content.range_text.low.units = 513

C6_CatalogImmutable ==
  /\ \A i, j \in DOMAIN catalog : i # j => catalog[i].id # catalog[j].id
  /\ \A i \in DOMAIN catalog : catalog[i].annual_kg >= 0
  /\ catalog = LIFESTYLE_CHANGES
  /\ constants = SCIENTIFIC_CONSTANTS
  /\ phase = "running" => DOMAIN change_vars = Ids

\* widgets built, boxes clicked, a calculation rejected and one shown
C6_Witness ==
  /\ phase = "running"
  /\ toggles > 0
  /\ warnings > 0
  /\ engine_calls > 0
  /\ summary_label.count > 0

\* C7: the ten-year total is the annual total times 10, exactly, for every
\* selection: in the value handed to calculate_lives_saved and on the summary
\* line.
C7_TenYearTotalExact ==
  /\ phase = "running" =>
       /\ summary_label.total_annual = SetSum(SelectedIds(change_vars))
       /\ summary_label.total_10y = 10 * summary_label.total_annual
  /\ JustShown =>
       /\ results_content.total_10y = 10 * SetSum(SelectedIds(change_vars))
       /\ results_content.total_10y = PROJECTION_YEARS * results_content.total_annual
       /\ Scaled(results_content.results.co2e_tons, 3) = results_content.total_10y

\* all ten boxes ticked: 13340 kg a year, 133400 kg in ten years
C7_Witness ==
  /\ JustShown
  /\ SelectedIds(change_vars) = Ids
  /\ results_content.total_10y = 133400
  /\ summary_label.total_10y = 133400
  /\ results_content.results.co2e_tons = Dec(0, 1334, -1)

ShownCentral == Scaled(results_content.results.central, 9)

\* C8 as stated: for 0 < central < 0.01 the message names
\* N = round(1 / central) people; energy_efficiency alone gives N = 1475.
C8_PeopleNeededRounded ==
  (JustShown /\ ShownCentral > 0 /\ ShownCentral < Pow10(7)) =>
    /\ results_content.interpretation.people_needed =
         << (2 * Pow10(9) + ShownCentral) \div (2 * ShownCentral) >>
    /\ SelectedIds(change_vars) = {"energy_efficiency"} =>
         results_content.interpretation.people_needed = << 1475 >>

\* C8 (amended): for 0 < central < 0.01 the message names N = int(1 / central),
\* the reciprocal truncated to a whole number: N * central <= 1 < (N + 1) * central;
\* energy_efficiency alone (central = 0.000678) gives N = 1474.
C8_PeopleNeededTruncated ==
  (JustShown /\ ShownCentral > 0 /\ ShownCentral < Pow10(7)) =>
    /\ Len(results_content.interpretation.people_needed) = 1
    /\ LET N == results_content.interpretation.people_needed[1] IN
         /\ N * ShownCentral <= Pow10(9)
         /\ (N + 1) * ShownCentral > Pow10(9)
    /\ SelectedIds(change_vars) = {"energy_efficiency"} =>
         results_content.interpretation.people_needed = << 1474 >>

C8_Witness ==
  /\ JustShown
  /\ SelectedIds(change_vars) = {"energy_efficiency"}
  /\ ShownCentral = 678000
  /\ results_content.interpretation.band = "people"
  /\ results_content.interpretation.people_needed = << 1474 >>

\* C9: the interpretation falls in exactly one band by the value of central:
\* 1 and above the death count, from 0.1 to below 1 the coarse percentage, from
\* 0.01 to below 0.1 the finer percentage, below 0.01 the "N people" message;
\* each of 1, 0.1 and 0.01 belongs to the band above it.
C9_BandsPartition ==
  interp # << >> =>
    LET band == interp[1].band IN
      /\ band \in {"deaths", "percent_1dp", "percent_2dp", "people"}
      /\ band = "deaths" <=> arg_central >= Pow10(9)
      /\ band = "percent_1dp" <=> (arg_central >= Pow10(8) /\ arg_central < Pow10(9))
      /\ band = "percent_2dp" <=> (arg_central >= Pow10(7) /\ arg_central < Pow10(8))
      /\ band = "people" <=> arg_central < Pow10(7)

\* central = 0.1 exactly
C9_Witness ==
  /\ interp # << >>
  /\ arg_central = Pow10(8)
  /\ interp[1].band = "percent_1dp"

\* C10: 1 / central is evaluated only for central > 0; for central <= 0 the
\* division is skipped and people_needed is 0; no division fault arises.
C10_DivisionGuarded ==
  interp # << >> =>
    /\ ~ interp[1].fault
    /\ interp[1].divisions = 1 => arg_central > 0
    /\ arg_central <= 0 =>
         /\ interp[1].divisions = 0
         /\ interp[1].people_needed = << 0 >>

\* central = 0
C10_Witness ==
  /\ interp # << >>
  /\ arg_central = 0
  /\ interp[1].band = "people"
  /\ interp[1].people_needed = << 0 >>

\* C11: after any clicks on check boxes and name labels, starting from no box
\* ticked and a summary of 0 / 0 / 0, the summary line shows the number of ticked
\* boxes, the sum of their annual_kg and ten times that sum; a Calculate in that
\* state uses the same annual and ten-year totals and lists as many entries.
C11_SummaryMatchesSelection ==
  /\ phase = "running" =>
       /\ summary_label.count = Cardinality(SelectedIds(change_vars))
       /\ summary_label.total_annual = click_total
       /\ summary_label.total_10y = 10 * click_total
       /\ toggles = 0 => summary_label = [count |-> 0, total_annual |-> 0,
                                          total_10y |-> 0]
  /\ JustShown =>
       /\ results_content.total_annual = summary_label.total_annual
       /\ results_content.total_10y = summary_label.total_10y
       /\ Len(results_content.rows) = summary_label.count

\* two clicks, two boxes ticked, then Calculate
C11_Witness ==
  /\ JustShown
  /\ toggles = 2
  /\ SelectedIds(change_vars) = {"flight_syd_lon", "reduce_meat"}
  /\ summary_label = [count |-> 2, total_annual |-> 5420, total_10y |-> 54200]
  /\ results_content.total_10y = 54200

\* C12: for every non-empty selection of the built-in catalog the central
\* estimate lies strictly between 0 and 0.1, at most 0.0301484 (all ten entries);
\* the message is the finer percentage or the "N people" one, never the death
\* count or the coarse percentage, and "N people" always comes from the division,
\* never from the people_needed = 0 fallback.
C12_CatalogStaysBelowOneTenth ==
  JustShown =>
    /\ ShownCentral > 0
    /\ ShownCentral < Pow10(8)
    /\ ShownCentral <= 30148400
    /\ SelectedIds(change_vars) = Ids => ShownCentral = 30148400
    /\ results_content.interpretation.band \in {"percent_2dp", "people"}
    /\ results_content.interpretation.band = "people" =>
         /\ results_content.interpretation.divisions = 1
         /\ results_content.interpretation.people_needed # << 0 >>

\* all ten entries: the largest central estimate the catalog can give
C12_Witness ==
  /\ JustShown
  /\ SelectedIds(change_vars) = Ids
  /\ results_content.results.central = Dec(0, 301484, -7)
  /\ results_content.interpretation.band = "percent_2dp"
  /\ results_content.interpretation.divisions = 0

\* C13: for every kilogram total >= 0, calculate_lives_saved returns
\* low <= 0 <= central <= high with high = 3 * central exactly, so the range
\* brackets the central estimate; the inequalities are strict for a positive
\* total.
C13_RangeBracketsCentral ==
  ret # << >> =>
    LET low == Scaled(ret[1].low, 9)
        central == Scaled(ret[1].central, 9)
        high == Scaled(ret[1].high, 9)
    IN /\ low <= 0
       /\ 0 <= central
       /\ central <= high
       /\ high = 3 * central
       /\ arg_kg > 0 => (low < 0 /\ 0 < central /\ central < high)

\* one ton: -0.000171, 0.000226, 0.000678
C13_Witness ==
  /\ ret # << >>
  /\ arg_kg = 1000
  /\ ret[1].low = Dec(1, 171, -6)
  /\ ret[1].central = Dec(0, 226, -6)
  /\ ret[1].high = Dec(0, 678, -6)

=============================================================================
